---- MODULE Spec2Model ----
(***************************************************************************)
(* A model of the codebase scanner of src/index.js: main, the              *)
(* CodebaseScanner class (scanDirectory, findFiles, analyzeSolutionFile,   *)
(* analyzeProjectFile, buildStructure, generateStructureMarkdown,          *)
(* generateSourceCodeMarkdown, getLanguage) over a small filesystem.       *)
(*                                                                         *)
(* A name is a sequence of one-character strings, a path is a sequence of  *)
(* names whose first element is the scanned root.  A directory listing     *)
(* (fs.readdir) returns the entries of a directory in an order the         *)
(* scanner does not control: every listing order is possible.              *)
(***************************************************************************)
EXTENDS FiniteSets, Integers, Sequences, TLC

\* ------------------------------------------------------------------ bounds
\* the entries of a tree below its root, and the faults among them
MaxEntries == 3
MaxFaults == 1

\* ------------------------------------------------------------------- names
n_app == <<"a", "p", "p">>
n_obj == <<"o", "b", "j">>
n_lib == <<"l", "i", "b">>
n_Src == <<"S", "r", "c">>
n_a_py == <<"a", ".", "p", "y">>
n_s_sln == <<"s", ".", "s", "l", "n">>
n_p_csproj == <<"p", ".", "c", "s", "p", "r", "o", "j">>
n_Q_csproj == <<"Q", ".", "c", "s", "p", "r", "o", "j">>

e_cs == <<".", "c", "s">>
e_csproj == <<".", "c", "s", "p", "r", "o", "j">>
e_sln == <<".", "s", "l", "n">>
e_config == <<".", "c", "o", "n", "f", "i", "g">>
e_cshtml == <<".", "c", "s", "h", "t", "m", "l">>
e_razor == <<".", "r", "a", "z", "o", "r">>
e_html == <<".", "h", "t", "m", "l">>
e_css == <<".", "c", "s", "s">>
e_js == <<".", "j", "s">>
e_jsx == <<".", "j", "s", "x">>
e_ts == <<".", "t", "s">>
e_tsx == <<".", "t", "s", "x">>
e_py == <<".", "p", "y">>
e_java == <<".", "j", "a", "v", "a">>
e_cpp == <<".", "c", "p", "p">>
e_h == <<".", "h">>

RootNames == {n_app, n_obj}
DirNames == {n_lib, n_Src}
FileNames == {n_a_py, n_s_sln, n_p_csproj, n_Q_csproj}

\* the default ignore list of the constructor
DefaultIgnoreDirs ==
  { <<".", "g", "i", "t">>,
    <<"n", "o", "d", "e", "_", "m", "o", "d", "u", "l", "e", "s">>,
    <<"d", "i", "s", "t">>,
    <<"b", "u", "i", "l", "d">>,
    <<"b", "i", "n">>,
    n_obj,
    <<"p", "a", "c", "k", "a", "g", "e", "s">>,
    <<".", "v", "s">> }

DefaultFileExtensions ==
  { e_cs, e_csproj, e_sln, e_config, e_cshtml, e_razor, e_html, e_css,
    e_js, e_jsx, e_ts, e_tsx, e_py, e_java, e_cpp, e_h }

\* ------------------------------------------------------------------- paths
Last(s) == s[Len(s)]
Front(s) == SubSeq(s, 1, Len(s) - 1)

\* path.basename, path.dirname, path.join(dir, name)
basename(p) == Last(p)
dirname(p) == Front(p)
join(dir, rel) == dir \o rel

\* path.extname: from the last "." of the base name to its end; empty when
\* there is no "." or when the only "." is the first character
extname(name) ==
  LET dots == {i \in 1..Len(name) : name[i] = "."}
  IN  IF dots = {} THEN <<>>
      ELSE LET d == CHOOSE i \in dots : \A j \in dots : j <= i
           IN  IF d = 1 THEN <<>> ELSE SubSeq(name, d, Len(name))

\* String.prototype.trim on the blanks of the model
RECURSIVE trimStart(_)
trimStart(s) == IF s # <<>> /\ s[1] = " " THEN trimStart(Tail(s)) ELSE s
RECURSIVE trimEnd(_)
trimEnd(s) == IF s # <<>> /\ Last(s) = " " THEN trimEnd(Front(s)) ELSE s
trim(s) == trimEnd(trimStart(s))

\* String.prototype.split(',')
RECURSIVE splitFrom(_, _, _)
splitFrom(s, i, cur) ==
  IF i > Len(s) THEN <<cur>>
  ELSE IF s[i] = "," THEN <<cur>> \o splitFrom(s, i + 1, <<>>)
  ELSE splitFrom(s, i + 1, Append(cur, s[i]))
split(s) == splitFrom(s, 1, <<>>)

Range(s) == {s[i] : i \in 1..Len(s)}

\* -------------------------------------------------------------- filesystem
\* In a tree of the model a directory carries a name of DirNames and any
\* other entry a name of FileNames.
isDirPath(p) == Len(p) = 1 \/ basename(p) \in DirNames

\* the trees obtained from tree T (a set of paths under root r) by adding
\* one entry to the root or to a directory of T
ExtendTree(r, T) ==
  { T \cup {Append(d, n)} :
      d \in {q \in T \cup {r} : isDirPath(q)},
      n \in DirNames \cup FileNames }

RECURSIVE TreesUpTo(_, _)
TreesUpTo(r, k) ==
  IF k = 0 THEN {{}}
  ELSE LET prev == TreesUpTo(r, k - 1)
       IN  prev \cup UNION {ExtendTree(r, T) : T \in prev}

Trees(r) == TreesUpTo(r, MaxEntries)

\* the values of --extensions and --ignore (the empty string: not given)
ExtensionsArgs == {<<>>, <<"p", "y", ",", " ", ".", "s", "l", "n">>}
IgnoreArgs == {<<>>, <<" ", "l", "i", "b">>}

\* what can be wrong with an entry: a directory that cannot be listed or a
\* file that cannot be read, a project manifest that is not well-formed markup
FaultsOf(p) ==
  {[path |-> p, what |-> "unreadable"]}
  \cup (IF extname(basename(p)) = e_csproj
        THEN {[path |-> p, what |-> "malformed"]} ELSE {})

RECURSIVE SubsetsUpTo(_, _)
SubsetsUpTo(S, k) ==
  IF k = 0 THEN {{}}
  ELSE LET prev == SubsetsUpTo(S, k - 1)
       IN  prev \cup {T \cup {x} : T \in prev, x \in S}

VARIABLES
  options,        \* the parsed command line: input, extensions, ignore, solution
  entries,        \* the paths of the tree under options.input (the root excluded)
  faults,         \* what is wrong with which entry
  ignoreDirs,     \* CodebaseScanner.ignoreDirs
  fileExtensions, \* CodebaseScanner.fileExtensions
  pc,             \* where main and scanDirectory stand
  slnFiles,       \* scanDirectory's slnFiles
  slnIdx,         \* the position of scanDirectory's loop over slnFiles
  markdown,       \* scanDirectory's markdown, a sequence of items
  structure,      \* scanDirectory's structure
  io,             \* the filesystem operations of the last step, in order
  pass,           \* the step they were issued by
  output,         \* the output file: <<>> or <<the document written>>
  console,        \* what main printed
  exitStatus,     \* the process's exit status, -1 while it has none
  error,          \* the error scanDirectory threw, "" when none
  firstDoc        \* <<>> or <<the document the first scan returned>>

vars == <<options, entries, faults, ignoreDirs, fileExtensions, pc, slnFiles,
          slnIdx, markdown, structure, io, pass, output, console,
          exitStatus, error, firstDoc>>

root == options.input
Paths == entries \cup {root}
Children(d) == {p \in entries : Len(p) = Len(d) + 1 /\ dirname(p) = d}
Dirs == {p \in Paths : isDirPath(p)}

Faulty(p, w) == [path |-> p, what |-> w] \in faults

\* Dirent.isDirectory, Dirent.isFile: every entry of a tree of the model is
\* a directory or a regular file
isDirectory(p) == isDirPath(p)
isFile(p) == ~isDirPath(p)

\* ----------------------------------------------------------------- listing
RECURSIVE Perms(_)
Perms(S) ==
  IF S = {} THEN {<<>>}
  ELSE UNION {{<<x>> \o q : q \in Perms(S \ {x})} : x \in S}

\* a listing order: for every directory, its entries in some order
RECURSIVE ListingsOf(_)
ListingsOf(D) ==
  IF D = {} THEN {<<>>}
  ELSE LET d == CHOOSE x \in D : TRUE
       IN  {(d :> q) @@ f : q \in Perms(Children(d)), f \in ListingsOf(D \ {d})}

Listings == ListingsOf(Dirs)

Op(kind, p, ok, result) == [op |-> kind, path |-> p, ok |-> ok, result |-> result]

\* fs.readdir(dirPath, { withFileTypes: true }) under listing order ord
readdir(dirPath, ord) ==
  IF Faulty(dirPath, "unreadable")
  THEN [ok |-> FALSE, entries |-> <<>>]
  ELSE [ok |-> TRUE, entries |-> ord[dirPath]]

\* fs.readFile(path, 'utf-8') succeeds
readable(p) == p \in Paths /\ ~isDirPath(p) /\ ~Faulty(p, "unreadable")

\* fs.access(path) succeeds
exists(p) == p \in Paths

\* ----------------------------------------------------------------- sorting
\* String.prototype.localeCompare on the characters of the model: letters
\* compare without regard to case and "." sorts before every letter; two
\* names that differ in case only compare lower case first.
LowerCase == <<".", "a", "b", "c", "i", "j", "l", "n", "o", "p", "q", "r", "s", "y">>
UpperCase == <<".", "A", "B", "C", "I", "J", "L", "N", "O", "P", "Q", "R", "S", "Y">>
primary(c) ==
  CHOOSE i \in 1..Len(LowerCase) : LowerCase[i] = c \/ UpperCase[i] = c
isUpper(c) == c \in Range(UpperCase) \ Range(LowerCase)

RECURSIVE compareFrom(_, _, _, _)
compareFrom(a, b, i, tie) ==
  IF i > Len(a) /\ i > Len(b) THEN tie
  ELSE IF i > Len(a) THEN -1
  ELSE IF i > Len(b) THEN 1
  ELSE IF primary(a[i]) < primary(b[i]) THEN -1
  ELSE IF primary(a[i]) > primary(b[i]) THEN 1
  ELSE compareFrom(a, b, i + 1,
         IF tie # 0 \/ isUpper(a[i]) = isUpper(b[i]) THEN tie
         ELSE IF isUpper(b[i]) THEN -1 ELSE 1)

localeCompare(a, b) == compareFrom(a, b, 1, 0)

\* the comparator without its test of the types: by name alone
compareNodes_byName(a, b) == localeCompare(a.name, b.name)

\* the comparator of buildStructure's sort
compareNodes(a, b) ==
  IF a.type = b.type THEN localeCompare(a.name, b.name)
  ELSE IF a.type = "directory" THEN -1 ELSE 1

\* Array.prototype.sort with that comparator: a stable sort
RECURSIVE insertNode(_, _)
insertNode(sorted, x) ==
  IF sorted = <<>> THEN <<x>>
  ELSE IF compareNodes(Last(sorted), x) <= 0 THEN Append(sorted, x)
  ELSE Append(insertNode(Front(sorted), x), Last(sorted))

RECURSIVE sortFrom(_, _, _)
sortFrom(children, i, sorted) ==
  IF i > Len(children) THEN sorted
  ELSE sortFrom(children, i + 1, insertNode(sorted, children[i]))

\* buildStructure without its sort
sortChildren_unsorted(children) == children

sortChildren(children) == sortFrom(children, 1, <<>>)

\* ------------------------------------------------------------- the scanner
\* the value null of buildStructure
Null == [path |-> <<>>, name |-> <<>>, type |-> "null", level |-> 0, children |-> <<>>]
\* the variable structure before buildStructure returned
Unset == [path |-> <<>>, name |-> <<>>, type |-> "unset", level |-> 0, children |-> <<>>]

\* findFiles(dirPath, extension): the files found, the operations issued,
\* and whether the call returned (ok) or threw
RECURSIVE findFiles(_, _, _)
RECURSIVE findFilesLoop(_, _, _, _, _)
findFilesLoop(ents, i, extension, ord, acc) ==
  IF i > Len(ents) \/ ~acc.ok THEN acc
  ELSE IF isDirectory(ents[i]) THEN
    IF basename(ents[i]) \notin ignoreDirs
    THEN LET r == findFiles(ents[i], extension, ord)
         IN  findFilesLoop(ents, i + 1, extension, ord,
               [ok |-> r.ok, files |-> acc.files \o r.files, io |-> acc.io \o r.io])
    ELSE findFilesLoop(ents, i + 1, extension, ord, acc)
  ELSE IF extname(basename(ents[i])) = extension
  THEN findFilesLoop(ents, i + 1, extension, ord,
         [acc EXCEPT !.files = Append(@, ents[i])])
  ELSE findFilesLoop(ents, i + 1, extension, ord, acc)

findFiles(dirPath, extension, ord) ==
  LET l == readdir(dirPath, ord)
      op == Op("readdir", dirPath, l.ok, l.entries)
  IN  IF ~l.ok THEN [ok |-> FALSE, files |-> <<>>, io |-> <<op>>]
      ELSE findFilesLoop(l.entries, 1, extension, ord,
             [ok |-> TRUE, files |-> <<>>, io |-> <<op>>])

\* an item of the document
Item(kind, p, indent, tag) == [kind |-> kind, path |-> p, indent |-> indent, tag |-> tag]

\* analyzeProjectFile with a catch block that adds no note
analyzeProjectFile_silent(csprojPath) ==
  LET head == Item("project", csprojPath, 0, "")
  IN  IF readable(csprojPath) /\ ~Faulty(csprojPath, "malformed")
      THEN [md |-> <<head, Item("projectSummary", csprojPath, 0, "")>>,
            io |-> <<Op("readFile", csprojPath, TRUE, <<>>)>>]
      ELSE [md |-> <<head>>,
            io |-> <<Op("readFile", csprojPath, readable(csprojPath), <<>>)>>]

\* analyzeProjectFile(csprojPath)
analyzeProjectFile(csprojPath) ==
  LET head == Item("project", csprojPath, 0, "")
  IN  IF ~readable(csprojPath)
      THEN [md |-> <<head, Item("projectError", csprojPath, 0, "read")>>,
            io |-> <<Op("readFile", csprojPath, FALSE, <<>>)>>]
      ELSE IF Faulty(csprojPath, "malformed")
      THEN [md |-> <<head, Item("projectError", csprojPath, 0, "parse")>>,
            io |-> <<Op("readFile", csprojPath, TRUE, <<>>)>>]
      ELSE [md |-> <<head, Item("projectSummary", csprojPath, 0, "")>>,
            io |-> <<Op("readFile", csprojPath, TRUE, <<>>)>>]

\* The text of a solution manifest, line by line: whether the line holds
\* the two markers analyzeSolutionFile filters on, and the quoted path the
\* pattern extracts from it. Every solution manifest of the model declares
\* the same projects, relative to its own directory.
SlnContent ==
  << [marked |-> FALSE, ref |-> <<n_a_py>>],
     [marked |-> TRUE, ref |-> <<n_p_csproj>>],
     [marked |-> TRUE, ref |-> <<n_Q_csproj>>],
     [marked |-> TRUE, ref |-> <<n_lib, n_p_csproj>>] >>

isProjectLine(line) == line.marked

\* analyzeSolutionFile(slnPath)
RECURSIVE analyzeProjectLines(_, _, _, _)
analyzeProjectLines(slnPath, projectLines, i, acc) ==
  IF i > Len(projectLines) THEN acc
  ELSE LET projPath == join(dirname(slnPath), projectLines[i].ref)
           access == Op("access", projPath, exists(projPath), <<>>)
       IN  IF exists(projPath)
           THEN LET r == analyzeProjectFile(projPath)
                IN  analyzeProjectLines(slnPath, projectLines, i + 1,
                      [md |-> acc.md \o r.md, io |-> Append(acc.io, access) \o r.io])
           ELSE analyzeProjectLines(slnPath, projectLines, i + 1,
                      [md |-> acc.md, io |-> Append(acc.io, access)])

analyzeSolutionFile(slnPath) ==
  LET head == Item("solution", slnPath, 0, "")
  IN  IF ~readable(slnPath)
      THEN [md |-> <<head, Item("solutionError", slnPath, 0, "read")>>,
            io |-> <<Op("readFile", slnPath, FALSE, <<>>)>>]
      ELSE analyzeProjectLines(slnPath, SelectSeq(SlnContent, isProjectLine), 1,
             [md |-> <<head>>, io |-> <<Op("readFile", slnPath, TRUE, <<>>)>>])

\* buildStructure(dirPath, level): the node built (Null for null), the
\* operations issued, and whether the call returned (ok) or threw
RECURSIVE buildStructure(_, _, _)
RECURSIVE buildStructureLoop(_, _, _, _, _)
buildStructureLoop(ents, i, level, ord, acc) ==
  IF i > Len(ents) \/ ~acc.ok THEN acc
  ELSE IF isDirectory(ents[i]) THEN
    LET r == buildStructure(ents[i], level + 1, ord)
    IN  buildStructureLoop(ents, i + 1, level, ord,
          [ok |-> r.ok,
           children |-> IF r.ok /\ r.node # Null
                        THEN Append(acc.children, r.node) ELSE acc.children,
           io |-> acc.io \o r.io])
  ELSE IF isFile(ents[i]) /\ extname(basename(ents[i])) \in fileExtensions
  THEN buildStructureLoop(ents, i + 1, level, ord,
         [acc EXCEPT !.children = Append(@,
            [path |-> ents[i], name |-> basename(ents[i]), type |-> "file",
             level |-> level + 1, children |-> <<>>])])
  ELSE buildStructureLoop(ents, i + 1, level, ord, acc)

buildStructure(dirPath, level, ord) ==
  LET l == readdir(dirPath, ord)
      op == Op("readdir", dirPath, l.ok, l.entries)
  IN  IF ~l.ok THEN [ok |-> FALSE, node |-> Null, io |-> <<op>>]
      ELSE IF basename(dirPath) \in ignoreDirs
      THEN [ok |-> TRUE, node |-> Null, io |-> <<op>>]
      ELSE LET r == buildStructureLoop(l.entries, 1, level, ord,
                      [ok |-> TRUE, children |-> <<>>, io |-> <<op>>])
           IN  [ok |-> r.ok,
                node |-> IF r.ok
                         THEN [path |-> dirPath, name |-> basename(dirPath),
                               type |-> "directory", level |-> level,
                               children |-> sortChildren(r.children)]
                         ELSE Null,
                io |-> r.io]

\* generateStructureMarkdown(structure, prefix), prefix counted in units of
\* two blanks
RECURSIVE generateStructureMarkdown(_, _)
RECURSIVE structureOfChildren(_, _, _)
structureOfChildren(children, i, prefix) ==
  IF i > Len(children) THEN <<>>
  ELSE generateStructureMarkdown(children[i], prefix)
         \o structureOfChildren(children, i + 1, prefix)

generateStructureMarkdown(node, prefix) ==
  IF node = Null THEN <<>>
  ELSE IF node.type = "directory"
  THEN (IF prefix > 0 THEN <<Item("dirLine", node.path, prefix, "")>> ELSE <<>>)
         \o structureOfChildren(node.children, 1, prefix + 1)
  ELSE <<Item("fileLine", node.path, prefix, "")>>

\* getLanguage(filePath)
getLanguage(filePath) ==
  LET ext == extname(basename(filePath))
  IN  CASE ext = e_cs -> "csharp"
        [] ext = e_csproj -> "xml"
        [] ext = e_sln -> "text"
        [] ext = e_config -> "xml"
        [] ext = e_cshtml -> "cshtml"
        [] ext = e_razor -> "cshtml"
        [] ext = e_js -> "javascript"
        [] ext = e_jsx -> "javascript"
        [] ext = e_ts -> "typescript"
        [] ext = e_tsx -> "typescript"
        [] ext = e_html -> "html"
        [] ext = e_css -> "css"
        [] ext = e_py -> "python"
        [] ext = e_java -> "java"
        [] ext = e_cpp -> "cpp"
        [] ext = e_h -> "cpp"
        [] OTHER -> ""

\* generateSourceCodeMarkdown(structure): reading structure.type of null
\* throws a TypeError
RECURSIVE generateSourceCodeMarkdown(_)
RECURSIVE sourceOfChildren(_, _, _)
sourceOfChildren(children, i, acc) ==
  IF i > Len(children) \/ ~acc.ok THEN acc
  ELSE LET r == generateSourceCodeMarkdown(children[i])
       IN  sourceOfChildren(children, i + 1,
             [ok |-> r.ok, md |-> acc.md \o r.md, io |-> acc.io \o r.io])

generateSourceCodeMarkdown(node) ==
  IF node = Null THEN [ok |-> FALSE, md |-> <<>>, io |-> <<>>]
  ELSE IF node.type = "file" THEN
    IF readable(node.path)
    THEN [ok |-> TRUE,
          md |-> <<Item("source", node.path, 0, getLanguage(node.path))>>,
          io |-> <<Op("readFile", node.path, TRUE, <<>>)>>]
    ELSE [ok |-> TRUE,
          md |-> <<Item("sourceError", node.path, 0, "read")>>,
          io |-> <<Op("readFile", node.path, FALSE, <<>>)>>]
  ELSE sourceOfChildren(node.children, 1,
         [ok |-> TRUE, md |-> <<>>, io |-> <<>>])

\* a constructor that adds the given extensions to the defaults
CodebaseScanner_addsExtensions(scannerOptions) ==
  [ignoreDirs |-> DefaultIgnoreDirs,
   fileExtensions |-> DefaultFileExtensions \cup Range(scannerOptions.fileExtensions)]

\* new CodebaseScanner(options): the two sets of the constructor
CodebaseScanner(scannerOptions) ==
  [ignoreDirs |-> DefaultIgnoreDirs,
   fileExtensions |-> IF scannerOptions.fileExtensions # <<>>
                      THEN Range(scannerOptions.fileExtensions)
                      ELSE DefaultFileExtensions]

\* main's reading of --extensions: split, trim, put the "." in front
dotted(ext) == IF ext # <<>> /\ ext[1] = "." THEN ext ELSE <<".">> \o ext
parseExtensions(arg) ==
  LET parts == split(arg)
  IN  [i \in 1..Len(parts) |-> dotted(trim(parts[i]))]

\* main's reading of --ignore: split, trim
parseIgnore(arg) ==
  LET parts == split(arg)
  IN  {trim(parts[i]) : i \in 1..Len(parts)}

\* ----------------------------------------------------------------- actions
\* main, up to the call of scanDirectory
main_parse ==
  /\ pc = "main"
  /\ LET scannerOptions ==
           [fileExtensions |-> IF options.extensions # <<>>
                               THEN parseExtensions(options.extensions) ELSE <<>>]
         scanner == CodebaseScanner(scannerOptions)
     IN  /\ fileExtensions' = scanner.fileExtensions
         /\ ignoreDirs' = scanner.ignoreDirs
              \cup (IF options.ignore # <<>> THEN parseIgnore(options.ignore) ELSE {})
  /\ pc' = "findFiles"
  /\ UNCHANGED <<options, entries, faults, slnFiles, slnIdx, markdown, structure,
                 io, pass, output, console, exitStatus, error, firstDoc>>

\* scanDirectory: the title and the search for solution manifests
scan_findFiles ==
  /\ pc = "findFiles"
  /\ \E ord \in Listings :
       LET r == findFiles(root, e_sln, ord)
       IN  /\ io' = r.io
           /\ IF r.ok
              THEN /\ slnFiles' = r.files
                   /\ markdown' = <<Item("title", <<>>, 0, "")>>
                        \o (IF Len(r.files) > 0
                            THEN <<Item("solutionSection", <<>>, 0, "")>> ELSE <<>>)
                   /\ pc' = IF Len(r.files) > 0 THEN "analyze" ELSE "build"
                   /\ error' = error
              ELSE /\ pc' = "catch"
                   /\ error' = "EACCES"
                   /\ UNCHANGED <<slnFiles, markdown>>
  /\ slnIdx' = 1
  /\ pass' = "findFiles"
  /\ UNCHANGED <<options, entries, faults, ignoreDirs, fileExtensions, structure,
                 output, console, exitStatus, firstDoc>>

\* scanDirectory: one turn of the loop over slnFiles
scan_analyzeSolutionFile ==
  /\ pc = "analyze"
  /\ LET r == analyzeSolutionFile(slnFiles[slnIdx])
     IN  /\ markdown' = markdown \o r.md
         /\ io' = r.io
  /\ slnIdx' = slnIdx + 1
  /\ pass' = "analyzeSolutionFile"
  /\ pc' = IF slnIdx = Len(slnFiles) THEN "build" ELSE "analyze"
  /\ UNCHANGED <<options, entries, faults, ignoreDirs, fileExtensions, slnFiles,
                 structure, output, console, exitStatus, error, firstDoc>>

\* scanDirectory: the tree
scan_buildStructure ==
  /\ pc = "build"
  /\ \E ord \in Listings :
       LET r == buildStructure(root, 0, ord)
       IN  /\ io' = r.io
           /\ IF r.ok
              THEN /\ structure' = r.node
                   /\ pc' = "render"
                   /\ error' = error
              ELSE /\ pc' = "catch"
                   /\ error' = "EACCES"
                   /\ UNCHANGED structure
  /\ pass' = "buildStructure"
  /\ UNCHANGED <<options, entries, faults, ignoreDirs, fileExtensions, slnFiles,
                 slnIdx, markdown, output, console, exitStatus, firstDoc>>

\* scanDirectory: the two sections rendered from the tree, and the return
scan_render ==
  /\ pc = "render"
  /\ LET lines == generateStructureMarkdown(structure, 0)
         r == generateSourceCodeMarkdown(structure)
     IN  /\ io' = r.io
         /\ IF r.ok
            THEN /\ markdown' = markdown
                      \o <<Item("directorySection", <<>>, 0, "")>> \o lines
                      \o <<Item("sourceSection", <<>>, 0, "")>> \o r.md
                 /\ pc' = "write"
                 /\ error' = error
            ELSE /\ pc' = "catch"
                 /\ error' = "TypeError"
                 /\ UNCHANGED markdown
  /\ pass' = "generateSourceCodeMarkdown"
  /\ UNCHANGED <<options, entries, faults, ignoreDirs, fileExtensions, slnFiles,
                 slnIdx, structure, output, console, exitStatus, firstDoc>>

\* main: the document written to the output file, the success message
main_writeFile ==
  /\ pc = "write"
  /\ output' = <<markdown>>
  /\ console' = Append(console, "Documentation generated successfully")
  /\ exitStatus' = 0
  /\ pc' = "done"
  /\ UNCHANGED <<options, entries, faults, ignoreDirs, fileExtensions, slnFiles,
                 slnIdx, markdown, structure, io, pass, error, firstDoc>>

\* main's catch block. spinner is declared inside the try block and is not
\* in scope here: spinner.fail throws a ReferenceError before anything is
\* printed and before process.exit(1). The rejection of main() is handled
\* nowhere: the runtime prints the ReferenceError and either ends the process
\* with status 1 or, with the spinner's timer still armed, leaves it running.
main_catch ==
  /\ pc = "catch"
  /\ console' = Append(console, "ReferenceError: spinner is not defined")
  /\ exitStatus' \in {1, -1}
  /\ pc' = "crashed"
  /\ UNCHANGED <<options, entries, faults, ignoreDirs, fileExtensions, slnFiles,
                 slnIdx, markdown, structure, io, pass, output, error, firstDoc>>

\* the same scan run a second time on the unchanged tree
main_again ==
  /\ pc = "done"
  /\ firstDoc = <<>>
  /\ firstDoc' = <<markdown>>
  /\ markdown' = <<>>
  /\ structure' = Unset
  /\ slnFiles' = <<>>
  /\ io' = <<>>
  /\ pass' = ""
  /\ output' = <<>>
  /\ console' = <<>>
  /\ exitStatus' = -1
  /\ pc' = "findFiles"
  /\ UNCHANGED <<options, entries, faults, ignoreDirs, fileExtensions, slnIdx,
                 error>>

\* The command lines and trees a run starts from: every combination of the
\* options on a tree without faults under a root that is not ignored; the
\* default options on a tree under an ignored root; the default options on a
\* tree with faults.
Admitted(r, x, g, sol, F) ==
  \/ r \notin DefaultIgnoreDirs /\ F = {}
  \/ x = <<>> /\ g = <<>> /\ sol /\ (F = {} \/ r \notin DefaultIgnoreDirs)

Init ==
  /\ \E r \in RootNames : \E T \in Trees(<<r>>) :
     \E x \in ExtensionsArgs : \E g \in IgnoreArgs : \E sol \in BOOLEAN :
     \E F \in SubsetsUpTo(UNION {FaultsOf(p) : p \in T \cup {<<r>>}}, MaxFaults) :
       /\ Admitted(r, x, g, sol, F)
       /\ entries = T
       /\ options = [input |-> <<r>>, extensions |-> x, ignore |-> g, solution |-> sol]
       /\ faults = F
  /\ ignoreDirs = {}
  /\ fileExtensions = {}
  /\ pc = "main"
  /\ slnFiles = <<>>
  /\ slnIdx = 1
  /\ markdown = <<>>
  /\ structure = Unset
  /\ io = <<>>
  /\ pass = ""
  /\ output = <<>>
  /\ console = <<>>
  /\ exitStatus = -1
  /\ error = ""
  /\ firstDoc = <<>>

Next ==
  \/ main_parse
  \/ scan_findFiles
  \/ scan_analyzeSolutionFile
  \/ scan_buildStructure
  \/ scan_render
  \/ main_writeFile
  \/ main_catch

Spec == Init /\ [][Next]_vars

\* the scan, and the scan run again
NextTwice == Next \/ main_again
SpecTwice == Init /\ [][NextTwice]_vars
\* ------------------------------------------------------------------ claims
Items == {markdown[k] : k \in 1..Len(markdown)}
Kinds == {it.kind : it \in Items}

\* p is, or lies beneath, a directory below the root whose name is ignored
BeneathIgnored(p) ==
  \E i \in 2..Len(p) : isDirPath(SubSeq(p, 1, i)) /\ p[i] \in ignoreDirs

\* p lies in directories none of which, the root included, is ignored
InKeptDirectories(p) == \A i \in 1..(Len(p) - 1) : p[i] \notin ignoreDirs

\* the solution manifests the search can find
Manifests ==
  {p \in entries : ~isDirPath(p) /\ extname(basename(p)) = e_sln /\ ~BeneathIgnored(p)}

Returned == pc \in {"write", "done"}
Failed == pc \in {"catch", "crashed"}

\* C1: a directory below the root whose name is in the ignore set, and
\* everything beneath it, appears in no section of the document, also when a
\* solution manifest outside it refers to a file inside it.
C1_IgnorePropagation == \A it \in Items : ~BeneathIgnored(it.path)

\* C4: a second scan of the unchanged tree with the same configuration
\* returns the document the first scan returned, whatever order the
\* directory listings come in.
C4_Determinism ==
  (pc = "done" /\ firstDoc # <<>>) => markdown = firstDoc[1]

\* C5: the document has the solution-analysis section if and only if a
\* solution manifest lies under the root and --no-solution was not given;
\* with --no-solution no manifest is searched for or analysed.
C5_SolutionSection ==
  Returned =>
    /\ "solutionSection" \in Kinds <=> (Manifests # {} /\ options.solution)
    /\ (~options.solution) =>
         (slnFiles = <<>> /\ Kinds \cap {"solution", "project"} = {})

\* C7: when a directory listing fails the scan is aborted, nothing is
\* written, and main prints the failure message and the error's message and
\* ends the process with a non-zero status.
C7_FatalErrorReported ==
  (pc = "crashed" /\ error = "EACCES") =>
     /\ output = <<>>
     /\ "Error generating documentation" \in Range(console)
     /\ error \in Range(console)
     /\ exitStatus > 0

\* C8: no step lists or reads an ignored directory or anything beneath it,
\* and the scan never fails on a directory listing while every directory that
\* is not ignored can be listed.
C8_IgnoredNeverVisited ==
  /\ \A k \in 1..Len(io) :
       io[k].op \in {"readdir", "readFile"} => ~BeneathIgnored(io[k].path)
  /\ (Failed /\ error = "EACCES") =>
       \E d \in Dirs : Faulty(d, "unreadable") /\ ~BeneathIgnored(d)

\* C9: with a root whose own name is ignored the scan completes without an
\* error, the document's structure and source sections are empty, and the
\* search for manifests, like the tree, leaves the root out.
C9_IgnoredRootHandled ==
  (basename(root) \in ignoreDirs /\ faults = {} /\ pc \in {"done", "crashed"}) =>
     /\ pc = "done"
     /\ slnFiles = <<>>
     /\ Kinds \cap {"dirLine", "fileLine", "source", "sourceError"} = {}
\* the nodes of a tree
RECURSIVE NodesOf(_)
NodesOf(node) ==
  {node} \cup UNION {NodesOf(node.children[i]) : i \in 1..Len(node.children)}

Tree == IF structure \in {Unset, Null} THEN {} ELSE NodesOf(structure)
FileNodes == {n.path : n \in {m \in Tree : m.type = "file"}}
Built == pc \in {"render", "write", "done"}

\* ext is on the list given with --extensions, with or without its "."
Listed(ext) ==
  LET parts == split(options.extensions)
  IN  \E i \in 1..Len(parts) : ext \in {trim(parts[i]), <<".">> \o trim(parts[i])}

Configured(ext) ==
  IF options.extensions = <<>> THEN ext \in DefaultFileExtensions ELSE Listed(ext)

\* C2: the File nodes of the tree are exactly the regular files in kept
\* directories whose extension is configured: one of the defaults when no
\* list is given, one of the list (and of nothing else) when one is; no
\* other file has a line in the structure section or an entry in the
\* source-code section.
C2_ExtensionFiltering ==
  /\ Built =>
       FileNodes = {p \in entries : /\ isFile(p)
                                    /\ InKeptDirectories(p)
                                    /\ Configured(extname(basename(p)))}
  /\ \A it \in Items :
       it.kind \in {"fileLine", "source", "sourceError"} =>
         Configured(extname(basename(it.path)))

C2_Witness ==
  /\ pc = "done"
  /\ options.extensions # <<>>
  /\ FileNodes # {}
  /\ \E p \in entries :
       /\ isFile(p) /\ InKeptDirectories(p)
       /\ extname(basename(p)) \in DefaultFileExtensions
       /\ ~Configured(extname(basename(p)))

IsPrefix(a, b) == Len(a) <= Len(b) /\ SubSeq(b, 1, Len(a)) = a
Diverge(a, b) ==
  CHOOSE c \in 1..Len(a) : a[c] # b[c] /\ \A k \in 1..(c - 1) : a[k] = b[k]

\* the entry at pa comes before the entry at pb in a depth-first pre-order
\* walk that takes the entries of each directory directories first, then
\* files, each group by ascending name
SortedBefore(pa, aDir, pb, bDir) ==
  IF IsPrefix(pa, pb) THEN pa # pb
  ELSE IF IsPrefix(pb, pa) THEN FALSE
  ELSE LET c == Diverge(pa, pb)
           da == Len(pa) > c \/ aDir
           db == Len(pb) > c \/ bDir
       IN  \/ da /\ ~db
           \/ da = db /\ localeCompare(pa[c], pb[c]) < 0

StructureLines == {k \in 1..Len(markdown) : markdown[k].kind \in {"dirLine", "fileLine"}}
SourceEntries == {k \in 1..Len(markdown) : markdown[k].kind \in {"source", "sourceError"}}

\* C3: the children of every Directory node are its Directory children by
\* ascending name, then its File children by ascending name; the structure
\* section and the source-code section hold the nodes of the tree, in the
\* order that gives.
C3_OrderingInvariant ==
  /\ \A n \in Tree : \A i, j \in 1..Len(n.children) :
       i < j =>
         LET a == n.children[i]
             b == n.children[j]
         IN  /\ a.type = "directory" \/ b.type = "file"
             /\ a.type = b.type => localeCompare(a.name, b.name) < 0
  /\ \A i, j \in StructureLines :
       i < j => SortedBefore(markdown[i].path, markdown[i].kind = "dirLine",
                             markdown[j].path, markdown[j].kind = "dirLine")
  /\ \A i, j \in SourceEntries :
       i < j => SortedBefore(markdown[i].path, FALSE, markdown[j].path, FALSE)
  /\ Returned =>
       /\ {markdown[k].path : k \in StructureLines} = {n.path : n \in Tree} \ {root}
       /\ {markdown[k].path : k \in SourceEntries} = FileNodes

\* a listing returned two entries that became nodes in the other order
C3_Witness ==
  /\ pc = "render"
  /\ \E k \in 1..Len(io) : \E i, j \in 1..Len(io[k].result) :
       LET a == io[k].result[i]
           b == io[k].result[j]
       IN  /\ i < j
           /\ {a, b} \subseteq {n.path : n \in Tree}
           /\ isDirPath(b) /\ ~isDirPath(a)
\* item it is in the document, directly followed by item next
Followed(it, next) ==
  \E k \in 1..(Len(markdown) - 1) : markdown[k] = it /\ markdown[k + 1] = next

\* the projects the solution manifest at slnPath declares and that exist
DeclaredProjects(slnPath) ==
  {join(dirname(slnPath), SlnContent[i].ref) :
     i \in {k \in 1..Len(SlnContent) : SlnContent[k].marked}} \cap Paths

WellFormed(p) == readable(p) /\ ~Faulty(p, "malformed")

\* C6: a solution manifest, a project manifest or a file that cannot be read
\* or parsed leaves an error note in the document where its content would
\* be, the items next to it are rendered as usual, and the scan does not
\* fail: a scan fails only on a directory listing or on an ignored root.
C6_RecoverableErrors ==
  /\ Failed => \/ \E d \in Dirs : Faulty(d, "unreadable")
               \/ basename(root) \in ignoreDirs
  /\ pc \in {"build", "render", "write", "done"} =>
       \A k \in 1..Len(slnFiles) :
         LET sln == slnFiles[k]
         IN  IF ~readable(sln)
             THEN Followed(Item("solution", sln, 0, ""),
                           Item("solutionError", sln, 0, "read"))
             ELSE /\ Item("solution", sln, 0, "") \in Items
                  /\ \A proj \in DeclaredProjects(sln) :
                       Followed(Item("project", proj, 0, ""),
                                IF WellFormed(proj)
                                THEN Item("projectSummary", proj, 0, "")
                                ELSE Item("projectError", proj, 0,
                                          IF readable(proj) THEN "parse" ELSE "read"))
  /\ Returned =>
       \A f \in FileNodes :
         IF readable(f)
         THEN Item("source", f, 0, getLanguage(f)) \in Items
         ELSE Item("sourceError", f, 0, "read") \in Items

\* one solution manifest with a well-formed and a malformed project
C6_Witness ==
  /\ pc = "done"
  /\ \E sln \in Range(slnFiles) : \E good, bad \in DeclaredProjects(sln) :
       /\ WellFormed(good)
       /\ Faulty(bad, "malformed")
       /\ Item("projectSummary", good, 0, "") \in Items
       /\ Item("projectError", bad, 0, "parse") \in Items
       /\ Item("source", bad, 0, "xml") \in Items

\* the listing of directory d among the operations of the last step
ListingOf(d) == io[CHOOSE k \in 1..Len(io) : io[k].path = d].result
PositionIn(list, p) == CHOOSE k \in 1..Len(list) : list[k] = p

\* the directory at pa is listed before the directory at pb in a depth-first
\* pre-order walk that takes the entries of each directory in the order its
\* listing returned them
ListedBefore(pa, pb) ==
  IF IsPrefix(pa, pb) THEN pa # pb
  ELSE IF IsPrefix(pb, pa) THEN FALSE
  ELSE LET c == Diverge(pa, pb)
           list == ListingOf(SubSeq(pa, 1, c - 1))
       IN  PositionIn(list, SubSeq(pa, 1, c)) < PositionIn(list, SubSeq(pb, 1, c))

====
